---- MODULE Spec2Model ----
(***************************************************************************)
(* Control dependence graph construction (Ferrante et al.) and its         *)
(* queries, as implemented by ControlDependenceGraphBase in                *)
(* lib/Analysis/ControlDependenceGraph.cpp.                                *)
(*                                                                         *)
(* A procedure's CFG is a sequence succ: succ[b] is the successor list of  *)
(* the terminator of block b (<<>> a return, <<t>> an unconditional        *)
(* branch, <<t, f>> a conditional branch).  Block 1 is the entry block.    *)
(* Nodes are numbered: 0 is the root, b is the node of block b (bbMap is   *)
(* the identity on blocks), larger numbers are regions in allocation order.*)
(***************************************************************************)
EXTENDS Integers, Sequences, FiniteSets, TLC

\* Bounds of the input family: number of blocks and of conditional branches.
MaxBlocks == 3
MaxCondBr == 1

VARIABLES
  succ,           \* the CFG of the function F
  pdt,            \* the post-dominator tree of F
  pc,             \* position of the program
  nodes,          \* ControlDependenceGraphBase::nodes
  TrueChildren,   \* per node: ControlDependenceNode::TrueChildren
  FalseChildren,  \* per node: ControlDependenceNode::FalseChildren
  OtherChildren,  \* per node: ControlDependenceNode::OtherChildren
  Parents,        \* per node: ControlDependenceNode::Parents
  cdMap,          \* insertRegions' local map: set of <<cds, region>>
  idx,            \* position of the running loop of insertRegions
  pass,           \* how many times insertRegions has been entered
  preRepair,      \* history: the graph when the repair loop was entered
  firstRun,       \* history: the graph when the first insertRegions returned
  qA, qB,         \* arguments A and B of the running query
  n,              \* controls: the local n
  worklist,       \* influences: the deque, each entry with its path length
  steps,          \* history: iterations of the controls loop so far
  cRes, iRes      \* results of controls(A, B) and influences(A, B)

vars == <<succ, pdt, pc, nodes, TrueChildren, FalseChildren, OtherChildren, Parents,
          cdMap, idx, pass, preRepair, firstRun, qA, qB, n, worklist, steps,
          cRes, iRes>>

graphVars == <<nodes, TrueChildren, FalseChildren, OtherChildren, Parents>>
queryVars == <<qA, qB, n, worklist, steps, cRes, iRes>>

(***************************************************************************)
(* The CFG view.                                                           *)
(***************************************************************************)
\* ControlDependenceNode(): TheBB(NULL); the null block.
NoBlock == 0
\* computeDependencies: root = new ControlDependenceNode().
root == 0

NumBlocks == Len(succ)
Blocks == 1..NumBlocks
EntryBlock == 1

Range(s) == {s[i] : i \in 1..Len(s)}

RECURSIVE SortedSeq(_)
SortedSeq(S) ==
  IF S = {} THEN <<>>
  ELSE LET m == CHOOSE x \in S : \A y \in S : x <= y
       IN  <<m>> \o SortedSeq(S \ {m})

\* Mutant: the two successors of the conditional branch taken for each other.
C8mut_getEdgeType(A, B) ==
  IF Len(succ[A]) = 2
  THEN IF succ[A][2] = B THEN "TRUE"
       ELSE IF succ[A][1] = B THEN "FALSE"
       ELSE "OTHER"
  ELSE "OTHER"

\* getEdgeType(A, B): only a conditional branch yields TRUE or FALSE.
getEdgeType(A, B) ==
  IF Len(succ[A]) = 2
  THEN IF succ[A][1] = B THEN "TRUE"
       ELSE IF succ[A][2] = B THEN "FALSE"
       ELSE "OTHER"
  ELSE "OTHER"

(***************************************************************************)
(* The post-dominator tree consumed by the builder.  It is an input: pdt   *)
(* holds the immediate-dominator link of every block (NoBlock at the top   *)
(* of the tree) and the tree's post-order.                                 *)
(***************************************************************************)
Exits == {b \in Blocks : succ[b] = <<>>}

RECURSIVE ReachAvoiding(_, _)
ReachAvoiding(S, avoid) ==
  LET next == (S \cup UNION {Range(succ[s]) : s \in S}) \ {avoid}
  IN  IF next = S THEN S ELSE ReachAvoiding(next, avoid)

\* B post-dominates A: every path from A to a return passes through B.
PostDominates(B, A) ==
  \/ B = A
  \/ ReachAvoiding({A}, B) \cap Exits = {}

ImmediatePostDominator(x) ==
  LET strict == {y \in Blocks \ {x} : PostDominates(y, x)}
  IN  IF strict = {} THEN NoBlock
      ELSE CHOOSE y \in strict : \A z \in strict : PostDominates(z, y)

\* po_iterator over the tree; the top without a block is skipped.
RECURSIVE PostOrderOf(_, _)
RECURSIVE PostOrderList(_, _)
PostOrderList(idom, s) ==
  IF s = <<>> THEN <<>>
  ELSE PostOrderOf(idom, Head(s)) \o PostOrderList(idom, Tail(s))
PostOrderOf(idom, x) ==
  PostOrderList(idom, SortedSeq({b \in DOMAIN idom : idom[b] = x}))
    \o (IF x = NoBlock THEN <<>> ELSE <<x>>)

PostDominatorTree ==
  LET idom == [b \in Blocks |-> ImmediatePostDominator(b)]
  IN  [idom |-> idom, postorder |-> PostOrderOf(idom, NoBlock)]

\* DomTreeNode::getIDom()
getIDom(x) == pdt.idom[x]

\* The blocks visited by: for (cur = pdt[B]; cur && cur != pdt[L]; cur = cur->getIDom())
RECURSIVE IDomChain(_, _)
IDomChain(cur, L) ==
  IF cur = NoBlock \/ cur = L THEN {}
  ELSE {cur} \cup IDomChain(getIDom(cur), L)

\* pdt.dominates(B, A)
dominates(B, A) == B \in IDomChain(A, NoBlock)

\* pdt.findNearestCommonDominator(A, B)
findNearestCommonDominator(A, B) ==
  LET common == IDomChain(A, NoBlock) \cap IDomChain(B, NoBlock)
  IN  IF common = {} THEN NoBlock
      ELSE CHOOSE c \in common : common \subseteq IDomChain(c, NoBlock)

PostOrder == pdt.postorder

(***************************************************************************)
(* Dependency computation.                                                 *)
(***************************************************************************)
\* The nodes that one CFG edge A -> B makes children of A's node.
EdgeDependents(A, B) ==
  IF A = B \/ ~dominates(B, A)
  THEN LET L == findNearestCommonDominator(A, B)
       IN  (IF A = L THEN {A} ELSE {}) \cup IDomChain(B, L)
  ELSE {}

RawChildren(A, type) ==
  UNION {EdgeDependents(A, B) : B \in {b \in Range(succ[A]) : getEdgeType(A, b) = type}}

\* ENTRY -> START: the blocks on the entry block's post-dominator chain.
EntryChain == IDomChain(EntryBlock, NoBlock)

\* Mutant: ENTRY -> START hangs the entry chain under the entry block's node
\* instead of the root.
C9mut_computeDependencies ==
  LET ns == {root} \cup Blocks
      T == [x \in ns |-> IF x = root THEN {} ELSE RawChildren(x, "TRUE")]
      F == [x \in ns |-> IF x = root THEN {} ELSE RawChildren(x, "FALSE")]
      O == [x \in ns |-> IF x = root THEN {}
                         ELSE RawChildren(x, "OTHER")
                                \cup (IF x = EntryBlock THEN EntryChain ELSE {})]
  IN  [TrueChildren  |-> T,
       FalseChildren |-> F,
       OtherChildren |-> O,
       Parents |-> [x \in ns |-> {p \in ns : x \in T[p] \cup F[p] \cup O[p]}]]

\* The graph computeDependencies builds, as a record of the four relations.
computeDependencies ==
  LET ns == {root} \cup Blocks
      T == [x \in ns |-> IF x = root THEN {} ELSE RawChildren(x, "TRUE")]
      F == [x \in ns |-> IF x = root THEN {} ELSE RawChildren(x, "FALSE")]
      O == [x \in ns |-> IF x = root THEN EntryChain ELSE RawChildren(x, "OTHER")]
  IN  [TrueChildren  |-> T,
       FalseChildren |-> F,
       OtherChildren |-> O,
       Parents |-> [x \in ns |-> {p \in ns : x \in T[p] \cup F[p] \cup O[p]}]]

(***************************************************************************)
(* The input family: every CFG of up to MaxBlocks blocks with up to        *)
(* MaxCondBr conditional branches (each with two different successors) in  *)
(* which every block can reach a return, so that the post-dominator tree   *)
(* holds every block; blocks unreachable from the entry are allowed.  To   *)
(* these are added the four-block scenarios: the if diamond, the while     *)
(* loop behind a preheader, and two blocks in sequence on one branch.      *)
(***************************************************************************)
Terminators(k) ==
  {<<>>} \cup {<<t>> : t \in 1..k}
         \cup {<<t, f>> : t, f \in 1..k}

WellFormed(s) ==
  /\ Cardinality({b \in 1..Len(s) : Len(s[b]) = 2}) <= MaxCondBr
  /\ \A b \in 1..Len(s) : Len(s[b]) = 2 => s[b][1] # s[b][2]

Scenarios ==
  { << <<2, 3>>, <<4>>, <<4>>, <<>> >>,
    << <<2>>, <<3, 4>>, <<2>>, <<>> >>,
    << <<2, 4>>, <<3>>, <<4>>, <<>> >> }

Init ==
  /\ \/ /\ \E k \in 1..MaxBlocks : succ \in [1..k -> Terminators(k)]
        /\ WellFormed(succ)
        /\ \A b \in Blocks : ReachAvoiding({b}, NoBlock) \cap Exits # {}
     \/ succ \in Scenarios
  /\ pdt = PostDominatorTree
  /\ pc = "start"
  /\ nodes = {}
  /\ TrueChildren = <<>>
  /\ FalseChildren = <<>>
  /\ OtherChildren = <<>>
  /\ Parents = <<>>
  /\ cdMap = {}
  /\ idx = 0
  /\ pass = 0
  /\ preRepair = <<>>
  /\ firstRun = <<>>
  /\ qA = NoBlock
  /\ qB = NoBlock
  /\ n = root
  /\ worklist = <<>>
  /\ steps = 0
  /\ cRes = "none"
  /\ iRes = "none"

(***************************************************************************)
(* The node model: a graph is a record of the four relations.              *)
(***************************************************************************)
Graph ==
  [TrueChildren  |-> TrueChildren,
   FalseChildren |-> FalseChildren,
   OtherChildren |-> OtherChildren,
   Parents       |-> Parents]

\* new ControlDependenceNode(): no children, no parents.
newNode(g, r) ==
  [TrueChildren  |-> g.TrueChildren  @@ (r :> {}),
   FalseChildren |-> g.FalseChildren @@ (r :> {}),
   OtherChildren |-> g.OtherChildren @@ (r :> {}),
   Parents       |-> g.Parents       @@ (r :> {})]

addTrue(g, node, child)      == [g EXCEPT !.TrueChildren[node]  = @ \cup {child}]
addFalse(g, node, child)     == [g EXCEPT !.FalseChildren[node] = @ \cup {child}]
addOther(g, node, child)     == [g EXCEPT !.OtherChildren[node] = @ \cup {child}]
addParent(g, node, parent)   == [g EXCEPT !.Parents[node]       = @ \cup {parent}]
removeTrue(g, node, child)   == [g EXCEPT !.TrueChildren[node]  = @ \ {child}]
removeFalse(g, node, child)  == [g EXCEPT !.FalseChildren[node] = @ \ {child}]
removeOther(g, node, child)  == [g EXCEPT !.OtherChildren[node] = @ \ {child}]
removeParent(g, node, parent) == [g EXCEPT !.Parents[node]      = @ \ {parent}]

\* getBlock(): TheBB, the null block for the root and for regions.
getBlock(node) == IF node \in Blocks THEN node ELSE NoBlock
isRegion(node) == getBlock(node) = NoBlock

\* The next node the allocator hands out.
freshNode(ns) == 1 + CHOOSE m \in ns : \A x \in ns : x <= m

(***************************************************************************)
(* Region insertion: the loop over the post-dominator tree.                *)
(***************************************************************************)
EdgeTypes == <<"TRUE", "FALSE", "OTHER">>

\* cds: the (edge type, parent) pairs under which node hangs in g.
dependencySet(g, node) ==
  {<<"TRUE", p>>  : p \in {q \in g.Parents[node] : node \in g.TrueChildren[q]}}
    \cup {<<"FALSE", p>> : p \in {q \in g.Parents[node] : node \in g.FalseChildren[q]}}
    \cup {<<"OTHER", p>> : p \in {q \in g.Parents[node] : node \in g.OtherChildren[q]}}

\* std::set<cd_type> iterates its pairs by edge type, then by parent.
typeRank(t) == CHOOSE i \in 1..3 : EdgeTypes[i] = t

RECURSIVE cdSeq(_)
cdSeq(cds) ==
  IF cds = {} THEN <<>>
  ELSE LET m == CHOOSE c \in cds : \A d \in cds :
                  \/ typeRank(c[1]) < typeRank(d[1])
                  \/ typeRank(c[1]) = typeRank(d[1]) /\ c[2] <= d[2]
       IN  <<m>> \o cdSeq(cds \ {m})

\* Lines 196-209: hang a new region under every parent of the set.
RECURSIVE attachRegion(_, _, _)
attachRegion(g, region, cs) ==
  IF cs = <<>> THEN g
  ELSE LET CD == Head(cs)
           g1 == CASE CD[1] = "TRUE"  -> addTrue(g, CD[2], region)
                   [] CD[1] = "FALSE" -> addFalse(g, CD[2], region)
                   [] OTHER           -> addOther(g, CD[2], region)
       IN  attachRegion(addParent(g1, region, CD[2]), region, Tail(cs))

\* Lines 213-228: move node from its parents to the region.
RECURSIVE rewire(_, _, _, _)
rewire(g, node, region, cs) ==
  IF cs = <<>> THEN g
  ELSE LET CD == Head(cs)
           g1 == CASE CD[1] = "TRUE"  -> removeTrue(g, CD[2], node)
                   [] CD[1] = "FALSE" -> removeFalse(g, CD[2], node)
                   [] OTHER           -> removeOther(g, CD[2], node)
           g2 == addOther(g1, region, node)
           g3 == addParent(g2, node, region)
           g4 == removeParent(g3, node, CD[2])
       IN  rewire(g4, node, region, Tail(cs))

\* initCDs and the map's first entry: {(OTHER, root)} -> root.
initCDs == {<<"OTHER", root>>}

\* Mutant: the lookup never finds the signature.
C3mut_cdMapFind(map, cds) == {}

\* cdMap.find(cds): the entries of the map under the key cds.
cdMapFind(map, cds) == {e \in map : e[1] = cds}

(***************************************************************************)
(* Region insertion: the repair loop (lines 231-271).                      *)
(*                                                                         *)
(* Each fix walks one of the node's child sets with an iterator while      *)
(* removeTrue / removeFalse erases the very element the iterator           *)
(* designates, and then increments that iterator.  The increment reads the *)
(* erased element: where the tree links of the erased element are still    *)
(* intact it lands on the in-order successor and the walk meets every      *)
(* child; where the allocator has reused them the process faults.  The     *)
(* model has both outcomes: fixTrue / fixFalse (the complete walk) and the *)
(* action RepairFault.                                                     *)
(***************************************************************************)
\* Mutant: node->removeTrue(child) left out.
C2mut_moveTrueChild(g, node, region, child) ==
  removeParent(addParent(addOther(g, region, child), child, region), child, node)

\* Mutant: child->removeParent(node) left out.
C5mut_moveTrueChild(g, node, region, child) ==
  removeTrue(addParent(addOther(g, region, child), child, region), node, child)

\* Lines 249-252 and 264-267 for one child.
moveTrueChild(g, node, region, child) ==
  removeTrue(removeParent(addParent(addOther(g, region, child), child, region),
                          child, node),
             node, child)

moveFalseChild(g, node, region, child) ==
  removeFalse(removeParent(addParent(addOther(g, region, child), child, region),
                           child, node),
              node, child)

RECURSIVE moveTrueChildren(_, _, _, _)
moveTrueChildren(g, node, region, cs) ==
  IF cs = <<>> THEN g
  ELSE moveTrueChildren(moveTrueChild(g, node, region, Head(cs)), node, region, Tail(cs))

RECURSIVE moveFalseChildren(_, _, _, _)
moveFalseChildren(g, node, region, cs) ==
  IF cs = <<>> THEN g
  ELSE moveFalseChildren(moveFalseChild(g, node, region, Head(cs)), node, region, Tail(cs))

\* Does the node need the fix? (node->TrueChildren.size() > 1)
tooManyTrue(g, node)  == Cardinality(g.TrueChildren[node]) > 1
tooManyFalse(g, node) == Cardinality(g.FalseChildren[node]) > 1

\* Lines 240-255: fix too many true nodes.
fixTrue(g, node, region) ==
  addTrue(moveTrueChildren(newNode(g, region), node, region,
                           SortedSeq(g.TrueChildren[node])),
          node, region)

\* Lines 258-270: fix too many false nodes.
fixFalse(g, node, region) ==
  addFalse(moveFalseChildren(newNode(g, region), node, region,
                             SortedSeq(g.FalseChildren[node])),
           node, region)

\* The body of the repair loop for one node that is no region.
repairNode(g, ns, node) ==
  LET r1 == freshNode(ns)
      t  == tooManyTrue(g, node)
      g1 == IF t THEN fixTrue(g, node, r1) ELSE g
      n1 == IF t THEN ns \cup {r1} ELSE ns
      r2 == freshNode(n1)
      f  == tooManyFalse(g1, node)
      g2 == IF f THEN fixFalse(g1, node, r2) ELSE g1
      n2 == IF f THEN n1 \cup {r2} ELSE n1
  IN  [graph |-> g2, nodes |-> n2]

ComputeDependencies ==
  /\ pc = "start"
  /\ LET g == computeDependencies
     IN  /\ nodes' = {root} \cup Blocks
         /\ TrueChildren' = g.TrueChildren
         /\ FalseChildren' = g.FalseChildren
         /\ OtherChildren' = g.OtherChildren
         /\ Parents' = g.Parents
  /\ pc' = "computed"
  /\ UNCHANGED <<succ, pdt, cdMap, idx, pass, preRepair, firstRun>>
  /\ UNCHANGED queryVars

\* insertRegions is entered: by graphForFunction after computeDependencies,
\* or once more on the finished graph.
EnterInsertRegions ==
  /\ \/ pc = "computed" /\ pass = 0
     \/ pc = "done" /\ pass = 1
  /\ pass' = pass + 1
  /\ cdMap' = {<<initCDs, root>>}
  /\ idx' = 1
  /\ pc' = "regions"
  /\ firstRun' = IF pass = 1 THEN [nodes |-> nodes, graph |-> Graph] ELSE firstRun
  /\ UNCHANGED <<succ, pdt, preRepair>>
  /\ UNCHANGED graphVars
  /\ UNCHANGED queryVars

\* One iteration of the loop over the post-dominator tree (lines 171-229);
\* after the last one the repair loop is entered.  The order among the
\* children of a tree node only decides which region is allocated first.
InsertRegionsStep ==
  /\ pc = "regions"
  /\ idx <= Len(PostOrder)
  /\ LET node == PostOrder[idx]
         cds == dependencySet(Graph, node)
         CDEntry == cdMapFind(cdMap, cds)
         found == CDEntry # {}
         region == IF found THEN (CHOOSE e \in CDEntry : TRUE)[2]
                   ELSE freshNode(nodes)
         g1 == IF found THEN Graph
               ELSE attachRegion(newNode(Graph, region), region, cdSeq(cds))
         g2 == rewire(g1, node, region, cdSeq(cds))
         last == idx = Len(PostOrder)
     IN  /\ nodes' = nodes \cup {region}
         /\ cdMap' = cdMap \cup {<<cds, region>>}
         /\ TrueChildren' = g2.TrueChildren
         /\ FalseChildren' = g2.FalseChildren
         /\ OtherChildren' = g2.OtherChildren
         /\ Parents' = g2.Parents
         /\ idx' = IF last THEN 1 ELSE idx + 1
         /\ pc' = IF last THEN "repair" ELSE "regions"
         /\ preRepair' = IF last THEN [nodes |-> nodes \cup {region}, graph |-> g2]
                         ELSE preRepair
  /\ UNCHANGED <<succ, pdt, pass, firstRun>>
  /\ UNCHANGED queryVars

\* One iteration of the repair loop: the nodes that are regions are passed
\* over (continue), so idx runs over the nodes of the blocks.  The fixes of
\* two nodes touch different links (each its own child sets, and its own
\* entry in the parents of its children), so the order of the std::set of
\* nodes does not matter.  After the last node insertRegions returns.
RepairStep ==
  /\ pc = "repair"
  /\ idx \in Blocks
  /\ LET r == repairNode(Graph, nodes, idx)
     IN  /\ nodes' = r.nodes
         /\ TrueChildren' = r.graph.TrueChildren
         /\ FalseChildren' = r.graph.FalseChildren
         /\ OtherChildren' = r.graph.OtherChildren
         /\ Parents' = r.graph.Parents
  /\ idx' = idx + 1
  /\ pc' = IF idx = NumBlocks THEN "done" ELSE "repair"
  /\ UNCHANGED <<succ, pdt, cdMap, pass, preRepair, firstRun>>
  /\ UNCHANGED queryVars

\* The increment of the invalidated iterator faults.
RepairFault ==
  /\ pc = "repair"
  /\ idx \in Blocks
  /\ tooManyTrue(Graph, idx) \/ tooManyFalse(Graph, idx)
  /\ pc' = "fault"
  /\ UNCHANGED <<succ, pdt, cdMap, idx, pass, preRepair, firstRun>>
  /\ UNCHANGED graphVars
  /\ UNCHANGED queryVars

(***************************************************************************)
(* The query layer, on the graph graphForFunction leaves.                  *)
(***************************************************************************)
Finished == pc = "done" /\ pass = 1

\* if (n->getBlock() == A) return true;  (controls, line 284)
controlsMatch(node, A) == getBlock(node) = A

\* Mutant: the visited node's block compared with B instead of A.
C4mut_influencesMatch(node, A) == getBlock(node) = qB

\* if (n->getBlock() == A) return true;  (influences, line 300)
influencesMatch(node, A) == getBlock(node) = A

\* controls(A, B) is called: n = getNode(B).
CallControls ==
  /\ Finished
  /\ \E A \in Blocks, B \in Blocks :
       /\ qA' = A
       /\ qB' = B
       /\ n' = B
  /\ steps' = 0
  /\ pc' = "controls"
  /\ UNCHANGED <<succ, pdt, cdMap, idx, pass, preRepair, firstRun, worklist, cRes, iRes>>
  /\ UNCHANGED graphVars

\* One test of the while condition of controls, with the body if it holds.
\* steps counts the parent links followed; a walk that has followed as many
\* links as there are nodes has met a node twice and goes on for ever.
ControlsStep ==
  /\ pc = "controls"
  /\ steps < Cardinality(nodes)
  /\ IF Cardinality(Parents[n]) = 1
     THEN LET p == CHOOSE q \in Parents[n] : TRUE
          IN  /\ n' = p
              /\ steps' = steps + 1
              /\ IF controlsMatch(p, qA)
                 THEN cRes' = "true" /\ pc' = "controlled"
                 ELSE UNCHANGED <<cRes, pc>>
     ELSE /\ cRes' = "false"
          /\ pc' = "controlled"
          /\ UNCHANGED <<n, steps>>
  /\ UNCHANGED <<succ, pdt, cdMap, idx, pass, preRepair, firstRun, qA, qB, worklist, iRes>>
  /\ UNCHANGED graphVars

\* worklist.insert(worklist.end(), n->parent_begin(), n->parent_end()), each
\* entry with the number of parent links from B's node to it.
RECURSIVE entries(_, _)
entries(ps, depth) ==
  IF ps = <<>> THEN <<>>
  ELSE <<[node |-> Head(ps), depth |-> depth]>> \o entries(Tail(ps), depth)

parentEntries(node, depth) == entries(SortedSeq(Parents[node]), depth)

\* influences(A, B) is called for the pair controls has answered.
CallInfluences ==
  /\ pc = "controlled"
  /\ worklist' = parentEntries(qB, 1)
  /\ pc' = "influences"
  /\ UNCHANGED <<succ, pdt, cdMap, idx, pass, preRepair, firstRun, qA, qB, n, steps, cRes, iRes>>
  /\ UNCHANGED graphVars

\* One test of the while condition of influences, with the body if it holds.
\* An entry as many links away from B's node as there are nodes lies on a
\* path that meets a node twice: the deque never empties.
InfluencesStep ==
  /\ pc = "influences"
  /\ worklist # <<>> => Head(worklist).depth < Cardinality(nodes)
  /\ IF worklist = <<>>
     THEN /\ iRes' = "false"
          /\ pc' = "answered"
          /\ UNCHANGED worklist
     ELSE LET e == Head(worklist)
          IN  IF influencesMatch(e.node, qA)
              THEN /\ iRes' = "true"
                   /\ pc' = "answered"
                   /\ worklist' = Tail(worklist)
              ELSE /\ worklist' = Tail(worklist) \o parentEntries(e.node, e.depth + 1)
                   /\ UNCHANGED <<iRes, pc>>
  /\ UNCHANGED <<succ, pdt, cdMap, idx, pass, preRepair, firstRun, qA, qB, n, steps, cRes>>
  /\ UNCHANGED graphVars

(***************************************************************************)
(* Properties.                                                             *)
(***************************************************************************)
RawGraph == computeDependencies

\* The dependency signature of a block in the raw graph.
rawSignature(b) == dependencySet(RawGraph, b)

\* C1: after construction every node of a block has exactly one parent,
\* also a block whose only raw dependence is the OTHER edge from the root.
C1_ExactlyOneParent ==
  Finished => \A b \in Blocks : Cardinality(Parents[b]) = 1

\* C2: when insertRegions has returned, every node of a block has at most one
\* TRUE and at most one FALSE child; a node that entered the repair loop with
\* more than one TRUE (FALSE) child has exactly one, a region allocated by the
\* repair loop; the repair loop leaves the node's OTHER children as they were.
C2_AtMostOneTrueFalse ==
  pc = "done" =>
    \A b \in Blocks :
      /\ Cardinality(TrueChildren[b]) <= 1
      /\ Cardinality(FalseChildren[b]) <= 1
      /\ Cardinality(preRepair.graph.TrueChildren[b]) > 1 =>
           \E r \in nodes \ preRepair.nodes : isRegion(r) /\ TrueChildren[b] = {r}
      /\ Cardinality(preRepair.graph.FalseChildren[b]) > 1 =>
           \E r \in nodes \ preRepair.nodes : isRegion(r) /\ FalseChildren[b] = {r}
      /\ OtherChildren[b] = preRepair.graph.OtherChildren[b]

C2_Witness ==
  /\ pc = "done"
  /\ \E b \in Blocks :
       /\ Cardinality(preRepair.graph.TrueChildren[b]) > 1
       /\ Cardinality(TrueChildren[b]) = 1

\* The regions the loop over the post-dominator tree allocated.
allocatedRegions == preRepair.nodes \ ({root} \cup Blocks)

C4_ControlsImpliesInfluences ==
  (pc = "answered" /\ cRes = "true") => iRes = "true"

C4_Witness == pc = "answered" /\ cRes = "true"

\* A while loop: H branches true to Body and false to Exit, Body returns to
\* H; the loop is entered at H, by the entry block being H or a preheader
\* that branches to H (any block besides the three is such a preheader).
WhileLoop(H, Body, Exit) ==
  /\ Cardinality({H, Body, Exit}) = 3
  /\ EntryBlock \notin {Body, Exit}
  /\ succ[H] = <<Body, Exit>>
  /\ succ[Body] = <<H>>
  /\ succ[Exit] = <<>>
  /\ \A b \in Blocks \ {H, Body, Exit} : succ[b] = <<H>>

IsWhileLoop == \E H \in Blocks, Body \in Blocks, Exit \in Blocks : WhileLoop(H, Body, Exit)

\* C5: on the graph of a while loop every influences query terminates: the
\* deque never holds a node as many parent links away from B's node as the
\* graph has nodes (such an entry lies on a cycle, which is walked for ever).
C5_WhileInfluencesTerminates ==
  (IsWhileLoop /\ pc = "influences") =>
    \A i \in 1..Len(worklist) : worklist[i].depth < Cardinality(nodes)

C5_Witness ==
  /\ pc = "answered"
  /\ iRes = "false"
  /\ \E Body \in Blocks, Exit \in Blocks : WhileLoop(qB, Body, Exit)
  /\ qB \in RawGraph.TrueChildren[qB]

\* C6: the single-parent walk of controls(A, B) terminates on every CFG: it
\* never follows as many parent links as the graph has nodes.
C6_ControlsTerminates ==
  pc = "controls" => steps < Cardinality(nodes)

\* C7: a second run of insertRegions on the finished graph changes nothing.
C7_Idempotent ==
  (pc = "done" /\ pass = 2) =>
    /\ nodes = firstRun.nodes
    /\ Graph = firstRun.graph

\* The if diamond: Cond branches true to T and false to F, both go to Join.
Diamond(Cond, T, F, Join) ==
  /\ Blocks = {Cond, T, F, Join}
  /\ Cardinality({Cond, T, F, Join}) = 4
  /\ Cond = EntryBlock
  /\ succ[Cond] = <<T, F>>
  /\ succ[T] = <<Join>>
  /\ succ[F] = <<Join>>
  /\ succ[Join] = <<>>

\* C8 as stated: in the finished graph of the diamond Cond's one TRUE child is
\* T's node and its one FALSE child is F's node.
C8_DiamondDirectChildren ==
  Finished =>
    \A T \in Blocks, F \in Blocks, Join \in Blocks :
      Diamond(EntryBlock, T, F, Join) =>
        TrueChildren[EntryBlock] = {T} /\ FalseChildren[EntryBlock] = {F}

\* C8 amended: Cond's one TRUE child is a region whose only OTHER child is T's
\* node, and its one FALSE child is a region whose only OTHER child is F's node.
C8_DiamondRegionChildren ==
  Finished =>
    \A T \in Blocks, F \in Blocks, Join \in Blocks :
      Diamond(EntryBlock, T, F, Join) =>
        \E rT \in nodes, rF \in nodes :
          /\ isRegion(rT) /\ isRegion(rF) /\ rT # rF
          /\ TrueChildren[EntryBlock] = {rT}
          /\ FalseChildren[EntryBlock] = {rF}
          /\ OtherChildren[rT] = {T} /\ Parents[T] = {rT}
          /\ OtherChildren[rF] = {F} /\ Parents[F] = {rF}
          /\ Parents[rT] = {EntryBlock} /\ Parents[rF] = {EntryBlock}

C8_Witness ==
  /\ Finished
  /\ \E T \in Blocks, F \in Blocks, Join \in Blocks : Diamond(EntryBlock, T, F, Join)

\* Straight-line code Entry -> Mid -> Exit.
StraightLine == succ = <<<<2>>, <<3>>, <<>>>>

\* C9 as stated: for straight-line code influences(Entry, Mid) returns true.
C9_EntryInfluencesMid ==
  (StraightLine /\ pc = "answered" /\ qA = 1 /\ qB = 2) => iRes = "true"

\* C9 amended: for straight-line code influences(Entry, Mid) returns false (Mid
\* hangs under the root only, and the root has no block).
C9_EntryDoesNotInfluenceMid ==
  (StraightLine /\ pc = "answered" /\ qA = 1 /\ qB = 2) => iRes = "false"

C9_Witness == StraightLine /\ pc = "answered" /\ qA = 1 /\ qB = 2

\* C10: for every raw edge from A's node to C's node, influences(A, C) returns
\* true on the finished graph.
C10_RawEdgeInfluences ==
  (pc = "answered"
     /\ qB \in RawGraph.TrueChildren[qA] \cup RawGraph.FalseChildren[qA]
                 \cup RawGraph.OtherChildren[qA])
    => iRes = "true"

\* The nodes that have c among their TRUE, FALSE or OTHER children.
childLinks(c) ==
  {p \in nodes : c \in TrueChildren[p] \cup FalseChildren[p] \cup OtherChildren[p]}

\* C11: after dependency computation and in the finished graph, p is in c's
\* parents set if and only if c is a TRUE, FALSE or OTHER child of p.
C11_ParentChildConsistent ==
  pc \in {"computed", "done"} => \A c \in nodes : Parents[c] = childLinks(c)

\* C11, the part that holds: the links are consistent when computeDependencies
\* returns, before any region is inserted.
C11_ConsistentAfterCompute ==
  (pc = "computed" /\ pass = 0) => \A c \in nodes : Parents[c] = childLinks(c)

\* C11, the two cases the claim names, each on the first finished graph: a
\* block rewired onto the root keeps the root as parent; a region allocated by
\* the repair loop has the repaired node as parent.
C11_RootRewireKeepsParent ==
  (pc = "done" /\ pass = 1) =>
    \A b \in Blocks : b \in OtherChildren[root] => root \in Parents[b]

C11_RepairRegionHasParent ==
  (pc = "done" /\ pass = 1) =>
    \A r \in nodes \ preRepair.nodes : Parents[r] = childLinks(r)

Next ==
  \/ ComputeDependencies
  \/ EnterInsertRegions
  \/ InsertRegionsStep
  \/ RepairStep
  \/ RepairFault
  \/ CallControls
  \/ ControlsStep
  \/ CallInfluences
  \/ InfluencesStep

Spec == Init /\ [][Next]_vars

====
